---- MODULE Spec2Model ----
(***************************************************************************)
(* State-machine model of HarmonyDriver (src/src/harmony_driver.py): the   *)
(* batch loop, the per-album pipeline of process_harmony, the browser's    *)
(* window handles, the bounded waits with their operator prompt, and the   *)
(* cover-art selection of process_cover_art.                               *)
(*                                                                         *)
(* A state is the program blocked at one of its waits or prompts (pc names *)
(* the wait); an action is the code that runs from there to the next one.  *)
(* What the web pages answer (element found or not, album linked or not,   *)
(* what a fetch returns) is chosen by the environment with \E.             *)
(***************************************************************************)
EXTENDS Integers, Sequences, FiniteSets, TLC

\* ------------------------------------------------------------------ bounds
NumAlbums == 2        \* len(song_urls)
MaxRetry == 1         \* how often the operator answers 'r' to one wait
MaxLinks == 2         \* "Link external IDs" anchors on a processing page
MaxPageCovers == 1    \* figure.cover-image elements on a processing page
MaxCovers == 2        \* figure.cover-image elements given to the selector alone
MaxExisting == 1      \* largest N shown by the "Cover art (N)" indicator
MaxErrorTabs == 2     \* error-tab elements on a submission page
MaxLabels == 2        \* label rows in the Release event fieldset
MaxName == 3          \* characters and escapes in the last path segment of a URL
MaxNew == 2           \* windows the browser opens in answer to one key chord
MaxHandle == 5        \* the last handle the browser gives out to open_in_new_tab alone

\* --------------------------------------------------------------- constants
NoHandle == 0             \* self.harmony_tab = None / processing_tab unset
DefaultTimeout == 10      \* timeout: int = 10
EnterEditTimeout == 30    \* external-link "Enter edit" button
LongTimeout == 120        \* banner / publish / cover-art confirmation

VARIABLES
    config,         \* the constructor's flags
    album,          \* i of "Processing album i/n" (0 before the first)
    pc,             \* the wait, prompt or loop head the program is at
    asking,         \* blocked in wait_find_element's input() after a timeout
    retries,        \* 'r' answers given to the wait in progress
    timeout,        \* timeout of the wait in progress
    error,          \* the exception that ended the run, and where it escaped
    lastRaise,      \* the wait whose TimeoutException was raised last
    handles,        \* driver.window_handles
    active,         \* driver.current_window_handle
    nextHandle,     \* the handle the browser gives the next new window
    harmony_tab,    \* self.harmony_tab
    processing_tab, \* self.processing_tab
    isrcCall,       \* which call of process_ISRC in process_harmony runs
    isrc_caught,    \* the running process_ISRC swallowed an exception
    new_login,      \* process_ISRC's local
    track_id_links, \* len(track_id_links)
    link_i,         \* links of track_id_links already handled
    cover_arts,     \* the figures handed to the selector on its own
    fetched,        \* what the fetches of the selector on its own return
    best_overall,   \* process_cover_art's best_overall (empty = None)
    any_fetched,    \* whether a get_image_size_from_url call of this album returned
    cover_tab,      \* the upload tab process_cover_art opened for this album
    saved,          \* covers written under cover_folder for this album
    indicator,      \* what the "Cover art (N)" indicator showed (empty = unread)
    fileSet,        \* file_input.send_keys calls for this album
    frontSel,       \* clicks on the 'Front' type for this album
    uploads,        \* clicks on the upload page's "Enter edit" for this album
    transients,     \* sub-task tabs opened for this album and not closed by their sub-task
    closed_tab,     \* the tab closed by "Closing processing tab"
    stages,         \* stages of the pipeline entered for this album
    submitted,      \* album URLs typed into Harmony's url-input so far
    login_page,     \* the page of the running sub-task asked for a login
    profile_saves,  \* save_profile calls made for the login of the running sub-task
    duplicates,     \* aria-disabled of the Release duplicates entry (empty = unread)
    error_tabs,     \* len(error_tabs) (empty = not counted yet)
    label_missing,  \* whether the page text named a missing label (empty = unread)
    label_search_list, \* len(label_search_list)
    label_i,        \* label widgets of label_search_list already handled
    mb_log,         \* what the error handling of this submission did, in order
    scenario,       \* "clean", "fixed" (labels auto-selected only) or "other"
    label_widgets,  \* the label widgets handed to the label loop on its own
    src_url,        \* the URL handed to the file naming on its own
    before,         \* open_in_new_tab's before, for the function on its own
    original_handle, \* open_in_new_tab's original_handle, for the function on its own
    returned        \* what open_in_new_tab on its own returned (empty = not yet)

ctl == <<pc, asking, retries, timeout, error, lastRaise, isrc_caught>>
browser == <<handles, active, nextHandle, transients>>
isrcv == <<isrcCall, new_login>>
linkv == <<track_id_links, link_i>>
selv == <<best_overall, any_fetched, cover_tab, saved>>
inv == <<cover_arts, fetched, label_widgets, src_url, before, original_handle, returned>>
loginv == <<login_page, profile_saves>>
mbv == <<duplicates, error_tabs, label_missing, label_search_list, label_i, mb_log>>
uplv == <<indicator, fileSet, frontSel, uploads>>
albv == <<config, album, harmony_tab, processing_tab, closed_tab, stages, submitted>>
vars == <<ctl, browser, isrcv, linkv, selv, inv, loginv, mbv, uplv, albv, scenario>>

\* song_urls: the album URLs in input order (album k has URL k)
song_urls == [k \in 1..NumAlbums |-> k]

Configs ==
    [ pause_on_found_release : BOOLEAN,
      close_process_tab_after_processing : BOOLEAN,
      copy_MB_ID_to_clipboard : BOOLEAN,
      use_test_mb : BOOLEAN,
      manual_review_before_publish : BOOLEAN,
      manual_label_selection : BOOLEAN ]

NoError == [exc |-> "none", fn |-> "none"]
NoRaise == [wait |-> "none", consulted |-> FALSE]

\* ---------------------------------------------------------------- waits
\* The waits made with wait_find_element, by the pc that names them.
ElementWaits ==
    { "url_input", "import_button",
      "mb_continue", "mb_username", "mb_password", "mb_remember", "mb_edit_note",
      "mb_duplicates", "mb_fieldset", "mb_search_list", "mb_enter_edit", "mb_published",
      "isrc_button", "isrc_check", "isrc_body", "isrc_login", "isrc_allow",
      "isrc_submit", "isrc_success",
      "ext_enter_edit", "ext_banner",
      "cover_add_button", "cover_file_input", "cover_count", "cover_front",
      "cover_enter_edit", "cover_thanks",
      "finish_id" }

\* The waits inside process_ISRC's try block.
IsrcTry ==
    { "isrc_button", "isrc_check", "isrc_body", "isrc_login", "isrc_allow",
      "isrc_submit", "isrc_success" }

\* The function whose code runs at pc.
FunctionAt(l) ==
    IF l \in IsrcTry \cup {"isrc_close"} THEN "process_ISRC"
    ELSE IF l \in {"ext_find", "ext_loop", "ext_enter_edit", "ext_banner"}
        THEN "process_external_links_to_tracks"
    ELSE IF l \in {"cover_find", "cover_add_button", "cover_file_input",
                   "cover_count", "cover_front", "cover_enter_edit", "cover_thanks"}
        THEN "process_cover_art"
    ELSE IF l \in {"mb_continue", "mb_username", "mb_password", "mb_remember",
                   "mb_login_prompt", "mb_edit_note", "mb_duplicates", "mb_dup_prompt",
                   "mb_scan", "mb_multi_prompt", "mb_unknown_prompt", "mb_fieldset",
                   "mb_search_list", "mb_label_prompt", "mb_review_prompt",
                   "mb_enter_edit", "mb_published"}
        THEN "process_musicbrainz_submission"
    ELSE "process_harmony"

\* The timeout argument of the wait at pc l.
TimeoutOf(l) ==
    IF l = "ext_enter_edit" THEN EnterEditTimeout
    ELSE IF l \in {"mb_published", "ext_banner", "cover_thanks"} THEN LongTimeout
    ELSE DefaultTimeout

\* The program reaches the wait, prompt or loop head l.
Goto(l) ==
    /\ pc' = l
    /\ asking' = FALSE
    /\ retries' = 0
    /\ timeout' = TimeoutOf(l)
    /\ error' = error
    /\ lastRaise' = NoRaise

\* The same, inside or outside a call of process_ISRC that goes on.
Step(l) == Goto(l) /\ isrc_caught' = isrc_caught /\ scenario' = scenario

\* The same, after the page showed something a clean import does not meet.
Off(l) == Goto(l) /\ isrc_caught' = isrc_caught /\ scenario' = "other"

\* The wait at l is polling (not blocked in its prompt) and its element appears.
Found(l) == pc = l /\ ~asking

\* ------------------------------------------------------------ exceptions
\* Variant: process() catches what process_harmony raises, logs it and goes on
\* with the next album.
PropagateContinue(exc) ==
    /\ pc' = "next"
    /\ asking' = FALSE
    /\ retries' = retries
    /\ timeout' = 0
    /\ error' = [exc |-> exc, fn |-> FunctionAt(pc)]

\* An exception nothing catches: it leaves process_harmony and process(), whose
\* loop has no handler, and the program ends.
Propagate(exc) ==
    /\ pc' = "aborted"
    /\ asking' = FALSE
    /\ retries' = retries
    /\ timeout' = 0
    /\ error' = [exc |-> exc, fn |-> FunctionAt(pc)]

\* An exception raised at pc; w records the wait that timed out, if one did.
\* A page step that fails ends the clean scenario; an AttributeError is no page's
\* doing.
\* Inside process_ISRC's try block "except Exception: pass" swallows it and the
\* code after the try runs; SystemExit is no Exception.
Throw(exc, w) ==
    /\ lastRaise' = w
    /\ scenario' = IF exc = "AttributeError" THEN scenario ELSE "other"
    /\ IF pc \in IsrcTry /\ exc # "SystemExit"
       THEN /\ pc' = "isrc_close"
            /\ asking' = FALSE
            /\ retries' = retries
            /\ timeout' = 0
            /\ error' = error
            /\ isrc_caught' = TRUE
       ELSE /\ Propagate(exc)
            /\ isrc_caught' = isrc_caught

\* A wait raises its TimeoutException; the record keeps whether the program was
\* at the operator's prompt when it did.
RaiseTimeout(wait) ==
    Throw("TimeoutException", [wait |-> wait, consulted |-> asking])

\* ------------------------------------------------- wait_find_element's prompt
\* What the operator may type at the prompt, as characters.
Answers ==
    { <<"r">>, <<"R">>, <<" ", "r", " ">>, <<"c">>, <<>>, <<" ">>, <<"r", "r">>, <<"C", " ">> }

IsSpace(c) == c = " "

Lower(c) == IF c = "R" THEN "r" ELSE IF c = "C" THEN "c" ELSE c

RECURSIVE LStrip(_)
LStrip(s) == IF s # <<>> /\ IsSpace(Head(s)) THEN LStrip(Tail(s)) ELSE s

RECURSIVE RStrip(_)
RStrip(s) ==
    IF s # <<>> /\ IsSpace(s[Len(s)]) THEN RStrip(SubSeq(s, 1, Len(s) - 1)) ELSE s

\* input(...).strip().lower()
StripLower(s) == [k \in 1..Len(RStrip(LStrip(s))) |-> Lower(RStrip(LStrip(s))[k])]

\* user_input != "r"
IsRetry(ans) == StripLower(ans) = <<"r">>

\* Variant: wait_find_element without its except clause, like the other waits.
WaitTimeoutRaises ==
    /\ pc \in ElementWaits
    /\ ~asking
    /\ RaiseTimeout("wait_find_element")
    /\ UNCHANGED <<browser, isrcv, linkv, selv, inv, loginv, mbv, uplv, albv>>

\* WebDriverWait(...).until(...) raises TimeoutException inside wait_find_element:
\* the except clause asks the operator.
WaitTimeout ==
    /\ pc \in ElementWaits
    /\ ~asking
    /\ asking' = TRUE
    /\ scenario' = "other"
    /\ UNCHANGED <<pc, retries, timeout, error, lastRaise, isrc_caught>>
    /\ UNCHANGED <<browser, isrcv, linkv, selv, inv, loginv, mbv, uplv, albv>>

\* Variant: a retry is not counted, so the operator may retry without end.
RetriedUncounted(n) == n

\* The 'r' answers given to the wait in progress, after one more.
Retried(n) == n + 1

\* The operator answers 'r': the while loop runs the same wait again.
OperatorRetry ==
    /\ pc \in ElementWaits
    /\ asking
    /\ retries < MaxRetry
    /\ {ans \in Answers : IsRetry(ans)} # {}
    /\ asking' = FALSE
    /\ retries' = Retried(retries)
    /\ UNCHANGED <<pc, timeout, error, lastRaise, isrc_caught, scenario>>
    /\ UNCHANGED <<browser, isrcv, linkv, selv, inv, loginv, mbv, uplv, albv>>

\* The operator answers anything else: the TimeoutException is re-raised.
OperatorAbort ==
    /\ pc \in ElementWaits
    /\ asking
    /\ {ans \in Answers : ~IsRetry(ans)} # {}
    /\ RaiseTimeout("wait_find_element")
    /\ UNCHANGED <<browser, isrcv, linkv, selv, inv, loginv, mbv, uplv, albv>>

\* ---------------------------------------------------------------- browser
\* What Ctrl+Enter on the element and the two waits of open_in_new_tab come to.
TabOutcomes == {"opened", "not_clickable", "no_new_tab"}

\* open_in_new_tab, continuing at l: wait_find_clickable, the key chord, the wait
\* for a handle not in `before`, the switch to it.
OpenInNewTab(o, l) ==
    IF o = "opened"
    THEN /\ handles' = handles \cup {nextHandle}
         /\ active' = nextHandle
         /\ nextHandle' = nextHandle + 1
         /\ Step(l)
    ELSE /\ UNCHANGED <<handles, active, nextHandle>>
         /\ RaiseTimeout(IF o = "not_clickable" THEN "wait_find_clickable"
                                                 ELSE "new_tab_wait")

\* self.driver.close(); self.driver.switch_to.window(h): the active window is
\* closed, and the switch succeeds when h is a window that is still open.
SwitchOk(h) == h \in handles \ {active}

CloseAndSwitch(h) ==
    /\ handles' = handles \ {active}
    /\ active' = IF SwitchOk(h) THEN h ELSE active
    /\ nextHandle' = nextHandle

\* The switch of CloseAndSwitch failed: NoSuchWindowException, outside any try.
NoSuchWindow ==
    /\ lastRaise' = NoRaise
    /\ scenario' = scenario
    /\ isrc_caught' = isrc_caught
    /\ Propagate("NoSuchWindowException")

\* ------------------------------------------------------ cover-art selection
Urls == {"u1", "u2", "u3"}

\* the URLs the figures of a processing page point to
PageUrls == {"u1", "u2"}

\* width and height of the images a fetch may return
Sizes == { <<300, 300>>, <<640, 640>>, <<200, 450>> }

Failed == [ok |-> FALSE, w |-> 0, h |-> 0]

\* get_image_size_from_url: it raises (Failed) or returns the image's size
Outcomes == {Failed} \cup { [ok |-> TRUE, w |-> sz[1], h |-> sz[2]] : sz \in Sizes }

\* What the network answers for each URL of U.
FetchMaps(U) == [U -> Outcomes]

\* The same for the figures of a processing page, whose images are one size.
PageFetchMaps == [PageUrls -> {Failed, [ok |-> TRUE, w |-> 640, h |-> 640]}]

NoFetch == [u \in Urls |-> Failed]

\* A figure.cover-image element: the href of its <a> and the src of its <img>,
\* "" when the element or the attribute is missing or empty.
Covers(U) == [href : U \cup {""}, src : U \cup {""}]

\* The element lists of at most n figures, in page order.
Pages(U, n) == UNION { [1..k -> Covers(U)] : k \in 0..n }

\* candidate_urls_from_cover
candidate_urls_from_cover(cover) ==
    LET urls == IF cover.href # "" THEN <<cover.href>> ELSE <<>>
    IN  IF cover.src # "" /\ \A k \in 1..Len(urls) : urls[k] # cover.src
        THEN Append(urls, cover.src)
        ELSE urls

\* Variant: area >= best_overall[0], the last of equal areas wins.
ImprovesOrEqual(area, best) == best = <<>> \/ area >= best[1].area

\* (best_overall is None) or (area > best_overall[0])
Improves(area, best) == best = <<>> \/ area > best[1].area

\* Variant: a fetch that fails counts as an image of size 0 x 0 instead of being
\* skipped.
RECURSIVE ScanUrlsZero(_, _, _)
ScanUrlsZero(urls, f, best) ==
    IF urls = <<>> THEN best
    ELSE LET url == Head(urls)
             r == f[url]
         IN  IF Improves(r.w * r.h, best)
             THEN ScanUrlsZero(Tail(urls), f,
                               << [area |-> r.w * r.h, w |-> r.w, h |-> r.h, url |-> url] >>)
             ELSE ScanUrlsZero(Tail(urls), f, best)

\* for url in urls: try get_image_size_from_url / except: continue / keep the best
RECURSIVE ScanUrls(_, _, _)
ScanUrls(urls, f, best) ==
    IF urls = <<>> THEN best
    ELSE LET url == Head(urls)
             r == f[url]
         IN  IF ~r.ok THEN ScanUrls(Tail(urls), f, best)
             ELSE IF Improves(r.w * r.h, best)
                  THEN ScanUrls(Tail(urls), f,
                                << [area |-> r.w * r.h, w |-> r.w, h |-> r.h, url |-> url] >>)
                  ELSE ScanUrls(Tail(urls), f, best)

\* for cover in cover_arts: ... ; the value of best_overall after the loops
RECURSIVE ScanCovers(_, _, _)
ScanCovers(covers, f, best) ==
    IF covers = <<>> THEN best
    ELSE ScanCovers(Tail(covers), f,
                    ScanUrls(candidate_urls_from_cover(Head(covers)), f, best))

\* What re.search(r"Cover art \((\d+)\)", text) finds in the indicator.
Indicators ==
    { [matched |-> FALSE, count |-> 0] }
        \cup { [matched |-> TRUE, count |-> c] : c \in 0..MaxExisting }

\* Variant: count > 1, one existing cover does not stop the upload.
SkipsUploadOffByOne(ind) == ind.matched /\ ind.count > 1

\* if match: count = int(match.group(1)); if count > 0: return
SkipsUpload(ind) == ind.matched /\ ind.count > 0

\* ------------------------------------------------------------------- Init
FirstHandle == 1

\* Window handles are opaque names the browser never gives twice. The windows
\* opened for album a are named from FirstWindowOf(a) on: an album opens at most
\* the processing tab, two MagicISRC tabs, MaxLinks link tabs and the upload tab.
FirstWindowOf(a) == FirstHandle + (a - 1) * (MaxLinks + 4) + 1

\* The driver after __init__, before process(): one window, nothing recorded.
Constructed ==
    /\ album = 0
    /\ asking = FALSE
    /\ retries = 0
    /\ timeout = 0
    /\ error = NoError
    /\ lastRaise = NoRaise
    /\ isrc_caught = FALSE
    /\ handles = {FirstHandle}
    /\ active = FirstHandle
    /\ nextHandle = FirstWindowOf(1)
    /\ transients = {}
    /\ harmony_tab = NoHandle
    /\ processing_tab = NoHandle
    /\ isrcCall = 0
    /\ new_login = FALSE
    /\ track_id_links = 0
    /\ link_i = 0
    /\ best_overall = <<>>
    /\ any_fetched = <<>>
    /\ cover_tab = NoHandle
    /\ saved = <<>>
    /\ indicator = <<>>
    /\ fileSet = 0
    /\ frontSel = 0
    /\ uploads = 0
    /\ closed_tab = NoHandle
    /\ stages = <<>>
    /\ submitted = <<>>
    /\ login_page = FALSE
    /\ profile_saves = 0
    /\ duplicates = <<>>
    /\ error_tabs = <<>>
    /\ label_missing = <<>>
    /\ label_search_list = 0
    /\ label_i = 0
    /\ mb_log = <<>>
    /\ scenario = "clean"
    /\ before = {}
    /\ original_handle = NoHandle
    /\ returned = <<>>

Init ==
    /\ config \in Configs
    /\ pc = "next"
    /\ cover_arts = <<>>
    /\ fetched = NoFetch
    /\ label_widgets = <<>>
    /\ src_url = <<>>
    /\ Constructed

\* ----------------------------------------------- process and process_harmony
\* The for loop of process() takes the next URL and process_harmony runs up to
\* its first wait: switch to the Harmony tab, load Harmony, remember the tab,
\* click the MusicBrainz provider (find_element raises when it is missing).
StartAlbum ==
    /\ pc = "next"
    /\ album < NumAlbums
    /\ album' = album + 1
    /\ active' = IF harmony_tab # NoHandle THEN harmony_tab ELSE active
    /\ harmony_tab' = active'
    /\ stages' = <<"OpenSource">>
    /\ transients' = {}
    /\ closed_tab' = NoHandle
    /\ isrcCall' = 0
    /\ new_login' = FALSE
    /\ track_id_links' = 0
    /\ link_i' = 0
    /\ best_overall' = <<>>
    /\ any_fetched' = <<>>
    /\ cover_tab' = NoHandle
    /\ saved' = <<>>
    /\ indicator' = <<>>
    /\ fileSet' = 0
    /\ frontSel' = 0
    /\ uploads' = 0
    /\ \E found \in BOOLEAN :
          IF found THEN /\ Goto("url_input")
                        /\ isrc_caught' = isrc_caught
                        /\ scenario' = "clean"
                   ELSE Throw("NoSuchElementException", NoRaise)
    /\ nextHandle' = FirstWindowOf(album')
    /\ UNCHANGED <<config, processing_tab, submitted, handles, inv, loginv, mbv>>

\* The for loop of process() is exhausted: "Done processing n albums".
BatchDone ==
    /\ pc = "next"
    /\ album = NumAlbums
    /\ Step("finished")
    /\ UNCHANGED <<browser, isrcv, linkv, selv, inv, loginv, mbv, uplv, albv>>

\* url-input found: clear it, type the album URL, submit the form.
UrlInputFound ==
    /\ Found("url_input")
    /\ submitted' = Append(submitted, song_urls[album])
    /\ stages' = Append(stages, "SubmitUrl")
    /\ Step("import_button")
    /\ UNCHANGED <<browser, isrcv, linkv, selv, inv, loginv, mbv, uplv>>
    /\ UNCHANGED <<config, album, harmony_tab, processing_tab, closed_tab>>

\* Variant: the operator is asked whatever pause_on_found_release says.
AfterLinkedAlwaysPauses == "pause_prompt"

\* if self.pause_on_found_release: input(...), then return to the batch loop
AfterLinked == IF config.pause_on_found_release THEN "pause_prompt" ELSE "next"

\* Import button found and the page says "is already linked to this": the link
\* text is read (and copied), the operator is asked when pause_on_found_release,
\* and process_harmony returns.
AlreadyLinked ==
    /\ Found("import_button")
    /\ stages' = stages \o <<"CheckExisting", "AlreadyLinked">>
    /\ Off(AfterLinked)
    /\ UNCHANGED <<browser, isrcv, linkv, selv, inv, loginv, mbv, uplv>>
    /\ UNCHANGED <<config, album, harmony_tab, processing_tab, closed_tab, submitted>>

\* input("!!! Press Enter to continue to the next album...") returns.
PauseContinue ==
    /\ pc = "pause_prompt"
    /\ Step("next")
    /\ UNCHANGED <<browser, isrcv, linkv, selv, inv, loginv, mbv, uplv, albv>>

\* Import button found and the album is not linked yet. With use_test_mb the
\* call of self.modify_musicbrainz_links(), a method the class does not define,
\* raises AttributeError. Otherwise the import opens in a new tab, which becomes
\* processing_tab, and process_musicbrainz_submission starts.
Import ==
    /\ Found("import_button")
    /\ IF config.use_test_mb
       THEN /\ Throw("AttributeError", NoRaise)
            /\ stages' = Append(stages, "CheckExisting")
            /\ UNCHANGED <<handles, active, nextHandle, processing_tab>>
       ELSE \E o \in TabOutcomes :
               /\ OpenInNewTab(o, "mb_continue")
               /\ processing_tab' = IF o = "opened" THEN nextHandle ELSE processing_tab
               /\ stages' = stages \o
                     (IF o = "opened" THEN <<"CheckExisting", "Import", "MbSubmit">>
                                      ELSE <<"CheckExisting", "Import">>)
    /\ UNCHANGED <<transients, isrcv, linkv, selv, inv, loginv, mbv, uplv>>
    /\ UNCHANGED <<config, album, harmony_tab, closed_tab, submitted>>

\* ------------------------------------------- process_musicbrainz_submission
\* What the text nodes of a first search result, or a search box's value, hold.
LabelTexts ==
    { <<"r", "c">>, <<"R", "C", " ">>, <<" ", "r", "c">>, <<"c">>, <<>>, <<" ">> }

\* search_input.get_attribute("value"): None (empty) or a text
Values == {<<>>} \cup { <<t>> : t \in LabelTexts }

\* An entry of mb_log: what was done, for which label widget (i of the loop),
\* what that widget showed, and which entry of remove_label_list was clicked.
Ev(e, i, c, entry) == [ev |-> e, i |-> i, case |-> c, entry |-> entry]

Did(e) == Ev(e, 0, "", <<>>)

\* What a label widget shows: no value to compare with, a first result equal to
\* the value once both are trimmed and lower-cased (and not empty), or another.
LabelCase(raw, value) ==
    IF value = <<>> THEN "no_value"
    ELSE IF StripLower(raw) # <<>> /\ StripLower(raw) = StripLower(value[1])
         THEN "match"
         ELSE "mismatch"

\* Variant: the pre-entered text is compared as typed, not stripped and lowered.
FixLabelAsTyped(raw, value, manual) ==
    IF value = <<>> THEN "none"
    ELSE IF StripLower(raw) # <<>> /\ StripLower(raw) = value[1] THEN "select"
    ELSE IF manual THEN "ask"
    ELSE "remove"

\* The body of "for i, label_search in enumerate(label_search_list)" from the
\* first result on: text is the result's text trimmed and lower-cased by the
\* script, pre_entered_text the value stripped and lowered; the result is
\* clicked, the operator asked, the label entry removed, or nothing done.
FixLabel(raw, value, manual) ==
    IF value = <<>> THEN "none"
    ELSE LET text == StripLower(raw)
             pre_entered_text == StripLower(value[1])
         IN  IF text # <<>> /\ text = pre_entered_text THEN "select"
             ELSE IF manual THEN "ask"
             ELSE "remove"

\* Variant: remove_label_list[0], whatever the widget.
RemovedEntryFirst(act, i) == IF act = "remove" THEN <<0>> ELSE <<>>

\* remove_label_list[i].click(): the entry clicked for widget i, if one is.
RemovedEntry(act, i) == IF act = "remove" THEN <<i>> ELSE <<>>

\* Variant: the review is never asked for.
ToPublishUnreviewed == "mb_enter_edit"

\* Variant: the review is asked for whatever the option.
ToPublishAlwaysReviews == "mb_review_prompt"

\* Where the submission goes on once the errors are dealt with: the operator's
\* review when manual_review_before_publish, else the wait for enter-edit.
ToPublish ==
    IF config.manual_review_before_publish THEN "mb_review_prompt" ELSE "mb_enter_edit"

\* edit_note_button.click(); error_tabs[0].click() after a single error.
Reopened(log) == Append(log, Did("error_tab"))

\* Variant: the profile is saved whether or not a login took place.
SavedAlways(saves, fresh) == saves + 1

\* if new_login: self.save_profile(), as the number of save_profile calls
SavedAfterLogin(saves, fresh) == IF fresh THEN saves + 1 ELSE saves

\* Variant: the operator is asked when the entry is marked disabled.
DuplicatesFoundInverted(aria_disabled) == aria_disabled # "none"

\* li.get_attribute("aria-disabled") is None
DuplicatesFound(aria_disabled) == aria_disabled = "none"

\* Variant: an error count of one is taken for a missing label whatever the text.
ErrorClassOneIsLabel(n, label) ==
    IF n >= 2 THEN "multi" ELSE IF n = 1 THEN "label" ELSE "none"

\* Variant: the operator is asked also when no error tab was found.
ErrorClassNoneAsks(n, label) ==
    IF n >= 2 \/ n = 0 THEN "multi"
    ELSE IF label THEN "label" ELSE "unknown"

\* if len(error_tabs) >= 2 / elif len(error_tabs) == 1 with the test of the page
\* text for "You haven't selected a label for"
ErrorClass(n, label) ==
    IF n >= 2 THEN "multi"
    ELSE IF n = 1 THEN (IF label THEN "label" ELSE "unknown")
    ELSE "none"

\* Continue found and clicked. A title starting with "Log in": with mb_user and
\* mb_pass in the environment (use_test_mb sets mb_pass itself) the form is
\* filled in, else the operator is asked to log in.
MbContinueFound ==
    /\ Found("mb_continue")
    /\ \E login \in BOOLEAN, mb_user \in BOOLEAN, mb_pass \in BOOLEAN :
          /\ login_page' = login
          /\ IF ~login THEN Step("mb_edit_note")
             ELSE IF mb_user /\ (mb_pass \/ config.use_test_mb)
                  THEN Off("mb_username")
                  ELSE Off("mb_login_prompt")
    /\ UNCHANGED <<browser, isrcv, linkv, selv, inv, profile_saves, mbv, uplv, albv>>

\* id-username found, the user name typed.
MbUsernameFound ==
    /\ Found("mb_username")
    /\ Step("mb_password")
    /\ UNCHANGED <<browser, isrcv, linkv, selv, inv, loginv, mbv, uplv, albv>>

\* id-password found, the password typed.
MbPasswordFound ==
    /\ Found("mb_password")
    /\ Step("mb_remember")
    /\ UNCHANGED <<browser, isrcv, linkv, selv, inv, loginv, mbv, uplv, albv>>

\* id-remember_me found, clicked, the form submitted: new_login = True.
MbRememberFound ==
    /\ Found("mb_remember")
    /\ new_login' = TRUE
    /\ Step("mb_edit_note")
    /\ UNCHANGED <<browser, isrcCall, linkv, selv, inv, loginv, mbv, uplv, albv>>

\* The operator has logged in by hand and pressed Enter: new_login = True.
MbLoginDone ==
    /\ pc = "mb_login_prompt"
    /\ new_login' = TRUE
    /\ Step("mb_edit_note")
    /\ UNCHANGED <<browser, isrcCall, linkv, selv, inv, loginv, mbv, uplv, albv>>

\* "Edit note" found: after a new login the profile is saved; the link is
\* clicked.
MbEditNoteFound ==
    /\ Found("mb_edit_note")
    /\ profile_saves' = SavedAfterLogin(profile_saves, new_login)
    /\ Step("mb_duplicates")
    /\ UNCHANGED <<browser, isrcv, linkv, selv, inv, login_page, mbv, uplv, albv>>

\* The Release duplicates entry is found: without aria-disabled the operator is
\* asked to review the duplicates. new_login is not read again; the record of
\* the login ends here.
MbDuplicatesFound ==
    /\ Found("mb_duplicates")
    /\ new_login' = FALSE
    /\ login_page' = FALSE
    /\ profile_saves' = 0
    /\ \E aria_disabled \in {"none", "true"} :
          /\ duplicates' = <<aria_disabled>>
          /\ IF DuplicatesFound(aria_disabled) THEN Off("mb_dup_prompt")
                                               ELSE Step("mb_scan")
    /\ UNCHANGED <<error_tabs, label_missing, label_search_list, label_i, mb_log>>
    /\ UNCHANGED <<browser, isrcCall, linkv, selv, inv, uplv, albv>>

\* The operator has reviewed the duplicates: "Edit note" is clicked again.
MbDupContinue ==
    /\ pc = "mb_dup_prompt"
    /\ Step("mb_scan")
    /\ UNCHANGED <<browser, isrcv, linkv, selv, inv, loginv, mbv, uplv, albv>>

\* "Look for errors": find_elements counts the error tabs (none when it raises).
\* Two or more: the operator is asked. One: the tab is clicked and the page text
\* read; the missing-label text leads to the Release event fieldset, any other
\* to the operator. None: on to publishing.
MbLookForErrors ==
    /\ pc = "mb_scan"
    /\ duplicates' = <<>>
    /\ \E n \in 0..MaxErrorTabs, label \in BOOLEAN :
          /\ error_tabs' = <<n>>
          /\ label_missing' = IF n = 1 THEN <<label>> ELSE <<>>
          /\ IF ErrorClass(n, label) = "multi"
             THEN /\ mb_log' = Append(mb_log, Did("multi_prompt"))
                  /\ Off("mb_multi_prompt")
             ELSE IF ErrorClass(n, label) = "label"
             THEN /\ mb_log' = Append(mb_log, Did("error_tab"))
                  /\ Step("mb_fieldset")
             ELSE IF ErrorClass(n, label) = "unknown"
             THEN /\ mb_log' = mb_log \o <<Did("error_tab"), Did("unknown_prompt")>>
                  /\ Off("mb_unknown_prompt")
             ELSE /\ mb_log' = mb_log
                  /\ Step(ToPublish)
    /\ UNCHANGED <<label_search_list, label_i>>
    /\ UNCHANGED <<browser, isrcv, linkv, selv, inv, loginv, uplv, albv>>

\* The operator has dealt with the errors and pressed Enter.
MbMultiContinue ==
    /\ pc = "mb_multi_prompt"
    /\ mb_log' = mb_log
    /\ Step(ToPublish)
    /\ UNCHANGED <<duplicates, error_tabs, label_missing, label_search_list, label_i>>
    /\ UNCHANGED <<browser, isrcv, linkv, selv, inv, loginv, uplv, albv>>

\* The operator has dealt with the unknown error: edit note and error tab are
\* clicked again.
MbUnknownContinue ==
    /\ pc = "mb_unknown_prompt"
    /\ mb_log' = Reopened(mb_log)
    /\ Step(ToPublish)
    /\ UNCHANGED <<duplicates, error_tabs, label_missing, label_search_list, label_i>>
    /\ UNCHANGED <<browser, isrcv, linkv, selv, inv, loginv, uplv, albv>>

\* A label row as the page shows it: the text nodes of the first search result
\* (before trim().toLowerCase()) and the input's value attribute.
Widgets == [raw : LabelTexts, value : Values]

\* What the page can show: any number of rows up to MaxLabels and any widget,
\* or, when the rows of the fieldset are given (label_widgets), those rows.
WidgetCounts == IF label_widgets = <<>> THEN 0..MaxLabels ELSE {Len(label_widgets)}

\* Variant: every row is judged by what the first row shows.
WidgetsAtFirst(i) == IF label_widgets = <<>> THEN Widgets ELSE {label_widgets[1]}

\* What row i (counted from 0, as enumerate does) can show.
WidgetsAt(i) == IF label_widgets = <<>> THEN Widgets ELSE {label_widgets[i + 1]}

\* The loop over n widgets goes on with widget i1, or is over: then edit note and
\* error tab are clicked again and publishing follows.
NextLabel(log, i1, n) ==
    /\ label_i' = i1
    /\ isrc_caught' = isrc_caught
    /\ IF i1 < n
       THEN /\ mb_log' = log
            /\ Goto("mb_search_list")
       ELSE /\ mb_log' = Reopened(log)
            /\ Goto(ToPublish)

\* The Release event fieldset is found: its span.autocomplete widgets and its
\* remove-release-label buttons (one of each per label row) are listed, and the
\* search of the first widget is clicked.
MbFieldsetFound ==
    /\ Found("mb_fieldset")
    /\ \E n \in WidgetCounts :
          /\ label_search_list' = n
          /\ NextLabel(mb_log, 0, n)
    /\ scenario' = scenario
    /\ UNCHANGED <<duplicates, error_tabs, label_missing>>
    /\ UNCHANGED <<browser, isrcv, linkv, selv, inv, loginv, uplv, albv>>

\* The widget's result list is found. The plain WebDriverWait for it to show
\* may time out; its first result may be missing; else the result's text is
\* compared with the value and the label is fixed.
MbSearchListFound ==
    /\ Found("mb_search_list")
    /\ \E shown \in BOOLEAN :
          IF ~shown
          THEN /\ RaiseTimeout("webdriver_wait")
               /\ UNCHANGED <<label_i, mb_log>>
          ELSE \E has_result \in BOOLEAN :
          IF ~has_result
          THEN /\ Throw("NoSuchElementException", NoRaise)
               /\ UNCHANGED <<label_i, mb_log>>
          ELSE \E w \in WidgetsAt(label_i) :
               LET act == FixLabel(w.raw, w.value, config.manual_label_selection)
                   case == LabelCase(w.raw, w.value)
                   log == Append(mb_log,
                                 Ev(act, label_i, case, RemovedEntry(act, label_i)))
               IN  IF act = "ask"
                   THEN /\ mb_log' = log
                        /\ label_i' = label_i
                        /\ Off("mb_label_prompt")
                   ELSE /\ NextLabel(log, label_i + 1, label_search_list)
                        /\ scenario' = IF case # "match" THEN "other"
                                       ELSE IF scenario = "clean" THEN "fixed"
                                       ELSE scenario
    /\ UNCHANGED <<duplicates, error_tabs, label_missing, label_search_list>>
    /\ UNCHANGED <<browser, isrcv, linkv, selv, inv, loginv, uplv, albv>>

\* The operator has checked the label by hand and pressed Enter.
MbLabelContinue ==
    /\ pc = "mb_label_prompt"
    /\ NextLabel(mb_log, label_i + 1, label_search_list)
    /\ scenario' = scenario
    /\ UNCHANGED <<duplicates, error_tabs, label_missing, label_search_list>>
    /\ UNCHANGED <<browser, isrcv, linkv, selv, inv, loginv, uplv, albv>>

\* The operator has reviewed the release and pressed Enter.
MbReviewDone ==
    /\ pc = "mb_review_prompt"
    /\ mb_log' = Append(mb_log, Did("review"))
    /\ Step("mb_enter_edit")
    /\ UNCHANGED <<duplicates, error_tabs, label_missing, label_search_list, label_i>>
    /\ UNCHANGED <<browser, isrcv, linkv, selv, inv, loginv, uplv, albv>>

\* "Publish release": enter-edit is found and clicked. The record of the error
\* handling ends here.
MbEnterEditFound ==
    /\ Found("mb_enter_edit")
    /\ duplicates' = <<>>
    /\ error_tabs' = <<>>
    /\ label_missing' = <<>>
    /\ label_search_list' = 0
    /\ label_i' = 0
    /\ mb_log' = <<>>
    /\ Step("mb_published")
    /\ UNCHANGED <<browser, isrcv, linkv, selv, inv, loginv, uplv, albv>>

\* "Release published successfully": process_musicbrainz_submission returns and
\* process_harmony calls process_ISRC (its first call).
MbPublished ==
    /\ Found("mb_published")
    /\ isrcCall' = 1
    /\ new_login' = FALSE
    /\ stages' = Append(stages, "IsrcSubmit")
    /\ Step("isrc_button")
    /\ UNCHANGED <<browser, linkv, selv, inv, loginv, mbv, uplv>>
    /\ UNCHANGED <<config, album, harmony_tab, processing_tab, closed_tab, submitted>>

\* ------------------------------------------------------------ process_ISRC
\* MagicISRC link found: open it in a new tab.
IsrcButtonFound ==
    /\ Found("isrc_button")
    /\ \E o \in TabOutcomes :
          /\ OpenInNewTab(o, "isrc_check")
          /\ transients' = IF o = "opened" THEN transients \cup {nextHandle}
                                            ELSE transients
    /\ UNCHANGED <<isrcv, linkv, selv, inv, loginv, mbv, uplv, albv>>

\* check-isrcs-submit found: the page is ready.
IsrcCheckFound ==
    /\ Found("isrc_check")
    /\ Step("isrc_body")
    /\ UNCHANGED <<browser, isrcv, linkv, selv, inv, loginv, mbv, uplv, albv>>

\* body found: does its text ask to "Login to MusicBrainz"?
IsrcBodyFound ==
    /\ Found("isrc_body")
    /\ new_login' = FALSE
    /\ \E login \in BOOLEAN :
          /\ login_page' = login
          /\ IF login THEN Step("isrc_login") ELSE Step("isrc_submit")
    /\ UNCHANGED <<browser, isrcCall, linkv, selv, inv, profile_saves, mbv, uplv, albv>>

\* Login button found and clicked.
IsrcLoginFound ==
    /\ Found("isrc_login")
    /\ Step("isrc_allow")
    /\ UNCHANGED <<browser, isrcv, linkv, selv, inv, loginv, mbv, uplv, albv>>

\* "Allow access" found and clicked, page refreshed.
IsrcAllowFound ==
    /\ Found("isrc_allow")
    /\ new_login' = TRUE
    /\ Step("isrc_submit")
    /\ UNCHANGED <<browser, isrcCall, linkv, selv, inv, loginv, mbv, uplv, albv>>

\* edit-submit found (the profile is saved after a new login) and clicked.
IsrcSubmitFound ==
    /\ Found("isrc_submit")
    /\ profile_saves' = SavedAfterLogin(profile_saves, new_login)
    /\ Step("isrc_success")
    /\ UNCHANGED <<browser, isrcv, linkv, selv, inv, login_page, mbv, uplv, albv>>

\* The success paragraph is found: the try block ends.
IsrcSuccessFound ==
    /\ Found("isrc_success")
    /\ Step("isrc_close")
    /\ UNCHANGED <<browser, isrcv, linkv, selv, inv, loginv, mbv, uplv, albv>>

\* After the try block, on every path: close the active window and switch to
\* processing_tab. Then process_ISRC returns into process_harmony: after its
\* first call comes "if self.use_test_mb: modify_musicbrainz_links() ... else:
\* self.process_ISRC()", after its second process_external_links_to_tracks.
IsrcClose ==
    /\ pc = "isrc_close"
    /\ CloseAndSwitch(processing_tab)
    /\ IF ~SwitchOk(processing_tab)
       THEN /\ NoSuchWindow
            /\ UNCHANGED <<isrcCall, stages>>
       ELSE IF isrcCall = 1 /\ config.use_test_mb
       THEN /\ lastRaise' = NoRaise
            /\ isrc_caught' = FALSE
            /\ scenario' = scenario
            /\ Propagate("AttributeError")
            /\ UNCHANGED <<isrcCall, stages>>
       ELSE IF isrcCall = 1
       THEN /\ isrcCall' = 2
            /\ isrc_caught' = FALSE
            /\ scenario' = scenario
            /\ stages' = Append(stages, "IsrcSubmit")
            /\ Goto("isrc_button")
       ELSE /\ isrc_caught' = FALSE
            /\ scenario' = scenario
            /\ stages' = Append(stages, "ExternalLinks")
            /\ Goto("ext_find")
            /\ UNCHANGED isrcCall
    /\ new_login' = FALSE
    /\ login_page' = FALSE
    /\ profile_saves' = 0
    /\ transients' = transients \ {active}
    /\ UNCHANGED <<linkv, selv, inv, mbv, uplv>>
    /\ UNCHANGED <<config, album, harmony_tab, processing_tab, closed_tab, submitted>>

\* ----------------------------------------- process_external_links_to_tracks
\* wait_find_elements for the "Link external IDs" anchors: it returns the n >= 1
\* anchors present or raises TimeoutException when none appears.
ExtFind ==
    /\ pc = "ext_find"
    /\ \E n \in 0..MaxLinks :
          IF n = 0
          THEN /\ RaiseTimeout("wait_find_elements")
               /\ UNCHANGED linkv
          ELSE /\ track_id_links' = n
               /\ link_i' = 0
               /\ Step("ext_loop")
    /\ UNCHANGED <<browser, isrcv, selv, inv, loginv, mbv, uplv, albv>>

\* for link in track_id_links: open the next link in a new tab.
ExtOpenLink ==
    /\ pc = "ext_loop"
    /\ link_i < track_id_links
    /\ \E o \in TabOutcomes :
          /\ OpenInNewTab(o, "ext_enter_edit")
          /\ transients' = IF o = "opened" THEN transients \cup {nextHandle}
                                            ELSE transients
    /\ UNCHANGED <<isrcv, linkv, selv, inv, loginv, mbv, uplv, albv>>

\* "Enter edit" found and clicked.
ExtEnterEditFound ==
    /\ Found("ext_enter_edit")
    /\ Step("ext_banner")
    /\ UNCHANGED <<browser, isrcv, linkv, selv, inv, loginv, mbv, uplv, albv>>

\* The banner is found: close the tab, switch to processing_tab, next link.
ExtBannerFound ==
    /\ Found("ext_banner")
    /\ CloseAndSwitch(processing_tab)
    /\ IF SwitchOk(processing_tab)
       THEN /\ link_i' = link_i + 1
            /\ Step("ext_loop")
       ELSE /\ NoSuchWindow
            /\ UNCHANGED link_i
    /\ transients' = transients \ {active}
    /\ UNCHANGED <<track_id_links, isrcv, selv, inv, loginv, mbv, uplv, albv>>

\* The loop is exhausted: process_external_links_to_tracks returns, its locals
\* are gone, and process_cover_art starts. Window names being opaque, the names
\* that further links would have taken are passed over.
ExtLoopDone ==
    /\ pc = "ext_loop"
    /\ link_i = track_id_links
    /\ track_id_links' = 0
    /\ link_i' = 0
    /\ nextHandle' = FirstWindowOf(album + 1) - 1
    /\ stages' = Append(stages, "CoverArt")
    /\ Step("cover_find")
    /\ UNCHANGED <<handles, active, transients, isrcv, selv, inv, loginv, mbv, uplv>>
    /\ UNCHANGED <<config, album, harmony_tab, processing_tab, closed_tab, submitted>>

\* ------------------------------------------------------- process_cover_art
\* Some get_image_size_from_url(url) call of the scan returns: some candidate
\* URL of some figure can be fetched and decoded.
AnyFetched(covers, f) ==
    \E k \in 1..Len(covers) :
        \E j \in 1..Len(candidate_urls_from_cover(covers[k])) :
            f[candidate_urls_from_cover(covers[k])[j]].ok

\* wait_find_elements for figure.cover-image returns the figures present (at
\* least one) or raises TimeoutException. Then the two for loops fetch every
\* candidate URL; no image could be read -> raise SystemExit("No valid images
\* found"); else the winner's bytes are written under cover_folder and the wait
\* for "Add cover art" starts.
CoverFind ==
    /\ pc = "cover_find"
    /\ \E page \in Pages(PageUrls, MaxPageCovers) :
          IF page = <<>>
          THEN /\ RaiseTimeout("wait_find_elements")
               /\ UNCHANGED <<best_overall, any_fetched, saved>>
          ELSE \E f \in PageFetchMaps :
                 LET best == ScanCovers(page, f, <<>>)
                 IN  /\ any_fetched' = << AnyFetched(page, f) >>
                     /\ best_overall' = best
                     /\ IF best = <<>>
                        THEN /\ Throw("SystemExit", NoRaise)
                             /\ UNCHANGED saved
                        ELSE /\ saved' = Append(saved, best[1].url)
                             /\ Step("cover_add_button")
    /\ UNCHANGED <<browser, isrcv, linkv, cover_tab, inv, loginv, mbv, uplv, albv>>

\* "Add cover art" found: open the upload page in a new tab.
CoverAddButtonFound ==
    /\ Found("cover_add_button")
    /\ \E o \in TabOutcomes :
          /\ OpenInNewTab(o, "cover_file_input")
          /\ transients' = IF o = "opened" THEN transients \cup {nextHandle}
                                            ELSE transients
          /\ cover_tab' = IF o = "opened" THEN nextHandle ELSE cover_tab
    /\ UNCHANGED <<isrcv, linkv, best_overall, any_fetched, saved, inv, loginv, mbv, uplv, albv>>

\* input[type='file'] found.
CoverFileInputFound ==
    /\ Found("cover_file_input")
    /\ Step("cover_count")
    /\ UNCHANGED <<browser, isrcv, linkv, selv, inv, loginv, mbv, uplv, albv>>

\* Where process_harmony goes on after process_cover_art has returned:
\* the wait for the release id when copy_MB_ID_to_clipboard, else the closing.
AfterCoverArt ==
    IF config.copy_MB_ID_to_clipboard THEN "finish_id" ELSE "finish_close"

\* The cover-art link is found and its text read. With "Cover art (N)", N > 0,
\* process_cover_art returns at once; else the file path goes into the input.
CoverCountFound ==
    /\ Found("cover_count")
    /\ \E ind \in Indicators :
          /\ indicator' = <<ind>>
          /\ IF SkipsUpload(ind)
             THEN /\ Step(AfterCoverArt)
                  /\ UNCHANGED fileSet
             ELSE /\ fileSet' = fileSet + 1
                  /\ Step("cover_front")
    /\ UNCHANGED <<browser, isrcv, linkv, selv, inv, loginv, mbv, frontSel, uploads, albv>>

\* The 'Front' type is found and clicked.
CoverFrontFound ==
    /\ Found("cover_front")
    /\ frontSel' = frontSel + 1
    /\ Step("cover_enter_edit")
    /\ UNCHANGED <<browser, isrcv, linkv, selv, inv, loginv, mbv, indicator, fileSet, uploads, albv>>

\* "Enter edit" is found and clicked: the upload is submitted.
CoverEnterEditFound ==
    /\ Found("cover_enter_edit")
    /\ uploads' = uploads + 1
    /\ Step("cover_thanks")
    /\ UNCHANGED <<browser, isrcv, linkv, selv, inv, loginv, mbv, indicator, fileSet, frontSel, albv>>

\* "Thank you, your ..." is found: close the tab, switch to processing_tab,
\* process_cover_art returns.
CoverThanksFound ==
    /\ Found("cover_thanks")
    /\ CloseAndSwitch(processing_tab)
    /\ IF SwitchOk(processing_tab) THEN Step(AfterCoverArt) ELSE NoSuchWindow
    /\ transients' = transients \ {active}
    /\ UNCHANGED <<isrcv, linkv, selv, inv, loginv, mbv, uplv, albv>>

\* ------------------------------------------------ the end of process_harmony
\* The provider-id link is found and its text copied to the clipboard.
FinishIdFound ==
    /\ Found("finish_id")
    /\ Step("finish_close")
    /\ UNCHANGED <<browser, isrcv, linkv, selv, inv, loginv, mbv, uplv, albv>>

\* if close_process_tab_after_processing: driver.close(); then
\* driver.switch_to.window(harmony_tab), and process_harmony returns.
FinishClose ==
    /\ pc = "finish_close"
    /\ handles' = IF config.close_process_tab_after_processing
                     THEN handles \ {active} ELSE handles
    /\ closed_tab' = IF config.close_process_tab_after_processing
                        THEN active ELSE closed_tab
    /\ IF harmony_tab \in handles'
       THEN /\ active' = harmony_tab
            /\ stages' = Append(stages, "Done")
            /\ Step("next")
       ELSE /\ active' = active
            /\ NoSuchWindow
            /\ UNCHANGED stages
    /\ UNCHANGED <<nextHandle, transients, isrcv, linkv, selv, inv, loginv, mbv, uplv>>
    /\ UNCHANGED <<config, album, harmony_tab, processing_tab, submitted>>

\* ------------------------------------------------------------ specification
Next ==
    \/ StartAlbum
    \/ BatchDone
    \/ UrlInputFound
    \/ AlreadyLinked
    \/ PauseContinue
    \/ Import
    \/ MbContinueFound
    \/ MbUsernameFound
    \/ MbPasswordFound
    \/ MbRememberFound
    \/ MbLoginDone
    \/ MbEditNoteFound
    \/ MbDuplicatesFound
    \/ MbDupContinue
    \/ MbLookForErrors
    \/ MbMultiContinue
    \/ MbUnknownContinue
    \/ MbFieldsetFound
    \/ MbSearchListFound
    \/ MbLabelContinue
    \/ MbReviewDone
    \/ MbEnterEditFound
    \/ MbPublished
    \/ IsrcButtonFound
    \/ IsrcCheckFound
    \/ IsrcBodyFound
    \/ IsrcLoginFound
    \/ IsrcAllowFound
    \/ IsrcSubmitFound
    \/ IsrcSuccessFound
    \/ IsrcClose
    \/ ExtFind
    \/ ExtOpenLink
    \/ ExtEnterEditFound
    \/ ExtBannerFound
    \/ ExtLoopDone
    \/ CoverFind
    \/ CoverAddButtonFound
    \/ CoverFileInputFound
    \/ CoverCountFound
    \/ CoverFrontFound
    \/ CoverEnterEditFound
    \/ CoverThanksFound
    \/ FinishIdFound
    \/ FinishClose
    \/ WaitTimeout
    \/ OperatorRetry
    \/ OperatorAbort

Spec == Init /\ [][Next]_vars

\* The program is sequential and each of its waits is bounded: it always takes
\* its next step, and a prompt it is blocked in is answered in the end.
FairSpec == Spec /\ WF_vars(Next)

\* ------------------------------------------- the cover-art selector on its own
\* The selection loops of process_cover_art as a function of the figures found
\* and of what each fetch returns: the inputs are drawn, the loops are run.
InitCover ==
    /\ config = [ pause_on_found_release |-> FALSE,
                  close_process_tab_after_processing |-> FALSE,
                  copy_MB_ID_to_clipboard |-> FALSE,
                  use_test_mb |-> FALSE,
                  manual_review_before_publish |-> FALSE,
                  manual_label_selection |-> FALSE ]
    /\ pc = "select"
    /\ cover_arts \in Pages(Urls, MaxCovers) \ {<<>>}
    /\ fetched \in FetchMaps(Urls)
    /\ label_widgets = <<>>
    /\ src_url = <<>>
    /\ Constructed

SelectCover ==
    /\ pc = "select"
    /\ pc' = "selected"
    /\ best_overall' = ScanCovers(cover_arts, fetched, <<>>)
    /\ UNCHANGED <<asking, retries, timeout, error, lastRaise, isrc_caught, scenario>>
    /\ UNCHANGED <<browser, isrcv, linkv, any_fetched, cover_tab, saved, inv, loginv, mbv, uplv, albv>>

NextCover == SelectCover

SpecCover == InitCover /\ [][NextCover]_vars

\* ------------------------------------------- the label repair on its own
\* The loop over the label rows of lines 243-297, started at the wait for the
\* Release event fieldset, for every fieldset of one to MaxLabels rows and both
\* values of manual_label_selection.
InitLabel ==
    /\ config \in { c \in Configs :
                       /\ ~c.pause_on_found_release
                       /\ ~c.close_process_tab_after_processing
                       /\ ~c.copy_MB_ID_to_clipboard
                       /\ ~c.use_test_mb
                       /\ ~c.manual_review_before_publish }
    /\ pc = "mb_fieldset"
    /\ cover_arts = <<>>
    /\ fetched = NoFetch
    /\ label_widgets \in UNION { [1..k -> Widgets] : k \in 1..MaxLabels }
    /\ src_url = <<>>
    /\ Constructed

NextRepair ==
    \/ MbFieldsetFound
    \/ MbSearchListFound
    \/ MbLabelContinue

SpecLabel == InitLabel /\ [][NextRepair]_vars


\* --------------------------------------------------- the file naming on its own
\* A URL is a sequence of tokens: its first token is the scheme and host, the
\* others are single characters or percent-escapes.
Origin == "https://h"

\* What the last path segment is made of: a letter, a dot, an escaped slash, an
\* escaped dot.
NameTokens == {"c", ".", "%2F", "%2E"}

LastSegments == UNION { [1..k -> NameTokens] : k \in 0..MaxName }

\* The URLs handed to the file naming: no path at all, or directories (none,
\* one, one with a dot in its name), a last segment, and optionally parameters,
\* a query and a fragment that hold slashes and dots of their own.
SourceUrls ==
    { <<Origin>> \o q \o f :
          q \in {<<>>, <<"?", "c", "/", "c", ".", "c">>},
          f \in {<<>>, <<"#", "c", "/", "c", ".", "c">>} }
    \cup
    { <<Origin>> \o d \o <<"/">> \o l \o pa \o q \o f :
          d \in {<<>>, <<"/", "c">>, <<"/", "c", ".", "c">>},
          l \in LastSegments,
          pa \in {<<>>, <<";", "c", ".", "c">>},
          q \in {<<>>, <<"?", "c", "/", "c", ".", "c">>},
          f \in {<<>>, <<"#", "c", "/", "c", ".", "c">>} }

\* str.find and str.rfind: the first and the last index of token c in s, 0 when
\* there is none.
Find(s, c) ==
    IF \E k \in 1..Len(s) : s[k] = c
    THEN CHOOSE k \in 1..Len(s) : s[k] = c /\ \A j \in 1..(k - 1) : s[j] # c
    ELSE 0

RFind(s, c) ==
    IF \E k \in 1..Len(s) : s[k] = c
    THEN CHOOSE k \in 1..Len(s) : s[k] = c /\ \A j \in (k + 1)..Len(s) : s[j] # c
    ELSE 0

\* s[:i] for the index i that Find returns, all of s when there is none.
UpTo(s, i) == IF i = 0 THEN s ELSE SubSeq(s, 1, i - 1)

\* urlparse(url).path: what follows the host, cut at the first "#", then at
\* the first "?", then at the first ";" of the last segment.
UrlPath(url) ==
    LET rest == Tail(url)
        nofrag == UpTo(rest, Find(rest, "#"))
        noquery == UpTo(nofrag, Find(nofrag, "?"))
        slash == RFind(noquery, "/")
        last == SubSeq(noquery, slash + 1, Len(noquery))
        semi == Find(last, ";")
    IN  IF semi = 0 THEN noquery ELSE SubSeq(noquery, 1, slash + semi - 1)

\* unquote: every percent-escape becomes the character it stands for.
Unquote(s) ==
    [k \in 1..Len(s) |-> IF s[k] = "%2F" THEN "/" ELSE IF s[k] = "%2E" THEN "." ELSE s[k]]

\* os.path.basename: what follows the last "/".
Basename(p) == SubSeq(p, RFind(p, "/") + 1, Len(p))

\* Variant: the last segment is taken first and decoded afterwards.
FilenameSegmentFirst(url) ==
    IF Unquote(Basename(UrlPath(url))) = <<>> THEN <<"image">>
    ELSE Unquote(Basename(UrlPath(url)))

\* filename_from_url
filename_from_url(url) ==
    LET name == Basename(Unquote(UrlPath(url)))
    IN  IF name = <<>> THEN <<"image">> ELSE name

\* cover_folder = os.path.join(current_folder, "covers"), with a dot in the
\* name of a directory above it.
cover_folder == <<"/", "app", ".", "d", "/", "covers">>

\* The second component of os.path.splitext(p): from the last dot on, when that
\* dot is after the last "/" and some character between them is not a dot.
SplitExt(p) ==
    LET sepIndex == RFind(p, "/")
        dotIndex == RFind(p, ".")
    IN  IF dotIndex > sepIndex /\ \E k \in (sepIndex + 1)..(dotIndex - 1) : p[k] # "."
        THEN SubSeq(p, dotIndex, Len(p))
        ELSE <<>>

\* cover_out_path of process_cover_art
CoverOutPath(url) ==
    LET joined == cover_folder \o <<"/">> \o filename_from_url(url)
    IN  IF SplitExt(joined) = <<>> THEN joined \o <<".", "jpg">> ELSE joined

InitName ==
    /\ config = [ pause_on_found_release |-> FALSE,
                  close_process_tab_after_processing |-> FALSE,
                  copy_MB_ID_to_clipboard |-> FALSE,
                  use_test_mb |-> FALSE,
                  manual_review_before_publish |-> FALSE,
                  manual_label_selection |-> FALSE ]
    /\ pc = "name"
    /\ cover_arts = <<>>
    /\ fetched = NoFetch
    /\ label_widgets = <<>>
    /\ src_url \in SourceUrls
    /\ Constructed

\* The winning cover is written to cover_out_path.
SaveCover ==
    /\ pc = "name"
    /\ pc' = "named"
    /\ saved' = <<CoverOutPath(src_url)>>
    /\ UNCHANGED <<asking, retries, timeout, error, lastRaise, isrc_caught, scenario>>
    /\ UNCHANGED <<browser, isrcv, linkv, best_overall, any_fetched, cover_tab>>
    /\ UNCHANGED <<inv, loginv, mbv, uplv, albv>>

NextName == SaveCover

SpecName == InitName /\ [][NextName]_vars

\* ------------------------------------------------ open_in_new_tab on its own
\* The function called again and again by a caller that either keeps the new
\* window or closes it and switches back, with a browser that answers the key
\* chord with no, one or several new windows.
InitTab ==
    /\ config = [ pause_on_found_release |-> FALSE,
                  close_process_tab_after_processing |-> FALSE,
                  copy_MB_ID_to_clipboard |-> FALSE,
                  use_test_mb |-> FALSE,
                  manual_review_before_publish |-> FALSE,
                  manual_label_selection |-> FALSE ]
    /\ pc = "tab_call"
    /\ cover_arts = <<>>
    /\ fetched = NoFetch
    /\ label_widgets = <<>>
    /\ src_url = <<>>
    /\ Constructed

\* Variant: the handle is popped from all the handles of `after`.
PoppableAll(after, bef) == after

\* new_handles = after - before, the set new_handles.pop() takes a handle from
Poppable(after, bef) == after \ bef

\* original_handle = current_window_handle; before = set(window_handles)
TabCall ==
    /\ pc = "tab_call"
    /\ pc' = "tab_clickable"
    /\ original_handle' = active
    /\ before' = handles
    /\ returned' = <<>>
    /\ UNCHANGED <<asking, retries, timeout, error, lastRaise, isrc_caught, scenario>>
    /\ UNCHANGED <<cover_arts, fetched, label_widgets, src_url>>
    /\ UNCHANGED <<browser, isrcv, linkv, selv, loginv, mbv, uplv, albv>>

\* wait_find_clickable times out, or the element takes Ctrl+Enter and the
\* browser opens k windows while the wait for a new handle polls.
TabClick ==
    /\ pc = "tab_clickable"
    /\ \E clickable \in BOOLEAN, k \in 0..MaxNew :
          IF ~clickable
          THEN /\ RaiseTimeout("wait_find_clickable")
               /\ UNCHANGED <<handles, nextHandle>>
          ELSE /\ nextHandle + k - 1 <= MaxHandle
               /\ handles' = handles \cup (nextHandle..(nextHandle + k - 1))
               /\ nextHandle' = nextHandle + k
               /\ pc' = "tab_wait"
               /\ UNCHANGED <<asking, retries, timeout, error, lastRaise,
                              isrc_caught, scenario>>
    /\ UNCHANGED <<active, transients, isrcv, linkv, selv, inv, loginv, mbv, uplv, albv>>

\* The wait for len(set(d.window_handles) - before) > 0 ends: with a timeout,
\* or with a handle popped from after - before, the switch to it and the return.
TabWait ==
    /\ pc = "tab_wait"
    /\ IF handles \ before = {}
       THEN /\ RaiseTimeout("new_tab_wait")
            /\ UNCHANGED <<active, returned>>
       ELSE \E new_handle \in Poppable(handles, before) :
               /\ active' = new_handle
               /\ returned' = <<original_handle, new_handle>>
               /\ pc' = "tab_returned"
               /\ UNCHANGED <<asking, retries, timeout, error, lastRaise,
                              isrc_caught, scenario>>
    /\ UNCHANGED <<cover_arts, fetched, label_widgets, src_url, before, original_handle>>
    /\ UNCHANGED <<handles, nextHandle, transients>>
    /\ UNCHANGED <<isrcv, linkv, selv, loginv, mbv, uplv, albv>>

\* The caller goes on in the new window, or closes it and switches back to the
\* first handle returned, and calls again.
TabCallerGoesOn ==
    /\ pc = "tab_returned"
    /\ pc' = "tab_call"
    /\ \E close \in BOOLEAN :
          IF close
          THEN /\ handles' = handles \ {active}
               /\ active' = returned[1]
          ELSE UNCHANGED <<handles, active>>
    /\ UNCHANGED <<asking, retries, timeout, error, lastRaise, isrc_caught, scenario>>
    /\ UNCHANGED <<nextHandle, transients, isrcv, linkv, selv, inv, loginv, mbv, uplv, albv>>

NextTab ==
    \/ TabCall
    \/ TabClick
    \/ TabWait
    \/ TabCallerGoesOn

SpecTab == InitTab /\ [][NextTab]_vars

\* ================================================================= properties
Last(q) == q[Len(q)]

\* The album whose stages are recorded has run to the end of process_harmony.
AlbumDone == stages # <<>> /\ Last(stages) = "Done"

\* The program is back in process_harmony after a sub-task that opens a
\* transient tab has returned: after the first process_ISRC (the second starts),
\* after the second, after an iteration of the link loop, after the link loop,
\* after process_cover_art.
SubTaskReturned ==
    \/ pc = "isrc_button" /\ ~asking /\ retries = 0 /\ isrcCall = 2
    \/ pc = "ext_find"
    \/ pc = "ext_loop" /\ link_i > 0
    \/ pc = "cover_find"
    \/ pc \in {"finish_id", "finish_close"}

\* C1: whenever a sub-task that opens a transient tab (process_ISRC, an
\* iteration of process_external_links_to_tracks, process_cover_art) has
\* returned to process_harmony, on any path, the active window handle is
\* processing_tab.
C1_ActiveIsProcessingAfterSubTask == SubTaskReturned => active = processing_tab

\* C2: an exception swallowed by process_ISRC's except clause never costs the
\* album: process_ISRC does not end the run and the processing tab stays open.
C2_IsrcFailureSwallowed ==
    isrc_caught => (pc # "aborted" /\ processing_tab \in handles)

\* The stages after which process_harmony still uses processing_tab.
NeedsProcessingTab ==
    FunctionAt(pc) \in { "process_musicbrainz_submission", "process_ISRC",
                         "process_external_links_to_tracks", "process_cover_art" }

\* C3: the active window handle always names an open window, and so does
\* processing_tab while a later stage of the album still needs it; also in the
\* state a failing step leaves behind.
C3_ActiveHandleLive ==
    /\ active \in handles
    /\ (NeedsProcessingTab \/ error.fn = "process_ISRC") => processing_tab \in handles

PipelineStages ==
    << "OpenSource", "SubmitUrl", "CheckExisting", "Import", "MbSubmit",
       "IsrcSubmit", "ExternalLinks", "CoverArt", "Done" >>

\* C4: an album that completes has entered the stages Import, MbSubmit,
\* IsrcSubmit, ExternalLinks, CoverArt, Done in this order, each exactly once.
C4_StagesOnceInOrder == AlbumDone => stages = PipelineStages

PlainWaits == {"wait_find_elements", "wait_find_clickable", "new_tab_wait", "webdriver_wait"}

\* C5 as stated: no wait raises its TimeoutException without having asked the
\* operator first.
C5_EveryWaitAsks == lastRaise.wait # "none" => lastRaise.consulted

\* C5 as amended: only wait_find_element asks the operator. Its
\* TimeoutException is raised from the prompt only; an 'r' restarts the same
\* wait with the same timeout; any other answer raises. wait_find_elements,
\* wait_find_clickable and the new-tab wait raise at once, unasked.
C5_OnlyElementWaitAsks ==
    /\ [](lastRaise.wait = "wait_find_element" => lastRaise.consulted)
    /\ [](lastRaise.wait \in PlainWaits => ~lastRaise.consulted)
    /\ [](asking => pc \in ElementWaits /\ timeout = TimeoutOf(pc))
    /\ [][asking /\ pc' = pc =>
            ~asking' /\ retries' = retries + 1 /\ timeout' = timeout]_vars
    /\ [][asking /\ pc' # pc =>
            lastRaise' = [wait |-> "wait_find_element", consulted |-> TRUE]]_vars

\* A wait was retried as often as the bound allows and then given up.
C5_Witness ==
    /\ pc = "aborted"
    /\ lastRaise = [wait |-> "wait_find_element", consulted |-> TRUE]
    /\ retries = MaxRetry

\* C6: the albums are taken in input order, one at a time (the next one only
\* after process_harmony has returned for the one before), and once an
\* exception has left process_harmony nothing more is done for any album.
C6_SequentialFailFast ==
    /\ [](/\ Len(submitted) <= album
          /\ album <= Len(submitted) + 1
          /\ submitted = SubSeq(song_urls, 1, Len(submitted)))
    /\ [][album' # album =>
            /\ album' = album + 1
            /\ pc = "next"
            /\ album > 0 => Last(stages) \in {"Done", "AlreadyLinked"}]_vars
    /\ [][error # NoError => UNCHANGED vars]_vars

\* The first album ended in an unhandled failure with albums left to do.
C6_Witness ==
    /\ error # NoError
    /\ album = 1
    /\ album < NumAlbums
    /\ submitted = <<song_urls[1]>>

\* The candidate slots of the figures, in scan order: figure by figure, in a
\* figure the link target (1) before the image source (2).
Slots(covers) ==
    { sl \in (1..Len(covers)) \X {1, 2} :
        IF sl[2] = 1 THEN covers[sl[1]].href # "" ELSE covers[sl[1]].src # "" }

SlotUrl(covers, sl) == IF sl[2] = 1 THEN covers[sl[1]].href ELSE covers[sl[1]].src

Before(a, b) == a[1] < b[1] \/ (a[1] = b[1] /\ a[2] <= b[2])

\* The slot the selector must pick, if there is one: fetched successfully, of
\* maximal area, and the first such in scan order.
IsWinner(covers, f, sl) ==
    /\ f[SlotUrl(covers, sl)].ok
    /\ \A o \in Slots(covers) :
          f[SlotUrl(covers, o)].ok =>
              LET a == f[SlotUrl(covers, sl)].w * f[SlotUrl(covers, sl)].h
                  b == f[SlotUrl(covers, o)].w * f[SlotUrl(covers, o)].h
              IN  b < a \/ (b = a /\ Before(sl, o))

\* C7: the selector returns the successfully fetched candidate of maximal
\* width*height that comes first in scan order, whatever fetches failed before
\* or after it, and nothing when no fetch succeeds.
C7_SelectsFirstLargest ==
    pc = "selected" =>
        IF \E sl \in Slots(cover_arts) : fetched[SlotUrl(cover_arts, sl)].ok
        THEN \E sl \in Slots(cover_arts) :
                /\ IsWinner(cover_arts, fetched, sl)
                /\ best_overall =
                      << [ area |-> fetched[SlotUrl(cover_arts, sl)].w
                                      * fetched[SlotUrl(cover_arts, sl)].h,
                           w |-> fetched[SlotUrl(cover_arts, sl)].w,
                           h |-> fetched[SlotUrl(cover_arts, sl)].h,
                           url |-> SlotUrl(cover_arts, sl) ] >>
        ELSE best_overall = <<>>

\* Two figures: the first figure's link fails, its image and the second figure's
\* link have the same area with different shapes, and the first of them won.
C7_Witness ==
    /\ pc = "selected"
    /\ Len(cover_arts) = 2
    /\ cover_arts[1].href # "" /\ ~fetched[cover_arts[1].href].ok
    /\ cover_arts[1].src # "" /\ cover_arts[2].href # ""
    /\ cover_arts[1].src # cover_arts[2].href
    /\ fetched[cover_arts[1].src].ok /\ fetched[cover_arts[2].href].ok
    /\ fetched[cover_arts[1].src].w # fetched[cover_arts[2].href].w
    /\ fetched[cover_arts[1].src].w * fetched[cover_arts[1].src].h
         = fetched[cover_arts[2].href].w * fetched[cover_arts[2].href].h
    /\ best_overall # <<>>
    /\ best_overall[1].url = cover_arts[1].src

\* C8: when no candidate URL of any figure could be fetched, process_cover_art
\* raises SystemExit: no cover file is written, no upload tab is opened, the
\* album does not reach Done, and the run does nothing more.
C8_NoValidImagesFatal ==
    /\ [](any_fetched = <<FALSE>> =>
            /\ pc = "aborted"
            /\ error = [exc |-> "SystemExit", fn |-> "process_cover_art"]
            /\ saved = <<>>
            /\ cover_tab = NoHandle
            /\ indicator = <<>>
            /\ Last(stages) = "CoverArt")
    /\ [][any_fetched = <<FALSE>> => UNCHANGED vars]_vars

\* The scan of the first album found no readable image, with an album left.
C8_Witness ==
    /\ any_fetched = <<FALSE>>
    /\ error.exc = "SystemExit"
    /\ album < NumAlbums

\* process_cover_art has returned normally for the album.
CoverArtReturned ==
    \/ pc \in {"finish_id", "finish_close"}
    \/ AlbumDone
    \/ pc = "aborted" /\ error.fn = "process_harmony" /\ Last(stages) = "CoverArt"

\* C9: when the indicator shows "Cover art (N)" with N > 0, nothing is put into
\* the file input, no type is chosen and no upload is submitted; when it shows
\* N = 0 the file path is set, and by the time process_cover_art returns the
\* Front type has been chosen and the upload submitted, each exactly once.
C9_UploadIdempotent ==
    /\ fileSet <= 1 /\ frontSel <= 1 /\ uploads <= 1
    /\ indicator # <<>> =>
          /\ (indicator[1].matched /\ indicator[1].count > 0) =>
                 fileSet = 0 /\ frontSel = 0 /\ uploads = 0
          /\ (indicator[1].matched /\ indicator[1].count = 0) =>
                 /\ fileSet = 1
                 /\ CoverArtReturned => frontSel = 1 /\ uploads = 1

\* An album completed whose upload page showed existing cover art.
C9_Witness ==
    /\ AlbumDone
    /\ indicator # <<>>
    /\ indicator[1].matched /\ indicator[1].count > 0
    /\ saved # <<>>

\* C10: with close_process_tab_after_processing, when an album has completed
\* the tab that was closed is the processing tab, none of the album's transient
\* tabs is open, and the active window is the Harmony tab.
C10_ClosesProcessingTab ==
    (config.close_process_tab_after_processing /\ AlbumDone) =>
        /\ closed_tab = processing_tab
        /\ transients \cap handles = {}
        /\ active = harmony_tab

\* The album in progress was found already linked by CheckExisting.
Linked == stages # <<>> /\ Last(stages) = "AlreadyLinked"

ErrorEvents ==
    {"error_tab", "select", "remove", "ask", "none", "multi_prompt", "unknown_prompt"}

\* The events that are an escalation of errors to the operator.
Escalations == {"multi_prompt", "unknown_prompt", "ask"}

\* The number of entries of log whose event is in evs.
CountOf(log, evs) == Cardinality({k \in 1..Len(log) : log[k].ev \in evs})

\* C12: when the scan of the submission page finds zero error tabs, no error
\* tab is clicked, no label is searched, selected or removed, the operator is
\* not asked about errors, and the handler goes on to the publish step (through
\* the review prompt exactly when manual_review_before_publish is set).
C12_NoErrorsNoAction ==
    error_tabs = <<0>> =>
        /\ CountOf(mb_log, ErrorEvents) = 0
        /\ label_missing = <<>>
        /\ label_search_list = 0
        /\ label_i = 0
        /\ pc \in {"mb_review_prompt", "mb_enter_edit", "aborted"}
        /\ pc = "mb_review_prompt" <=>
              (config.manual_review_before_publish /\ mb_log = <<>>)
        /\ pc = "aborted" => error.fn = "process_musicbrainz_submission"
                             /\ lastRaise.wait = "wait_find_element"

\* Zero error tabs were found and, no review being asked for, the handler is
\* waiting for the enter-edit button with nothing done about errors.
C12_Witness ==
    /\ error_tabs = <<0>>
    /\ pc = "mb_enter_edit"
    /\ ~asking
    /\ ~config.manual_review_before_publish
    /\ mb_log = <<>>

\* s without its leading and trailing spaces, in lower case, said without
\* recursion: a leading blanks and b trailing blanks are cut, and what is left
\* neither starts nor ends with a blank.
Normalised(s) ==
    LET n == Len(s)
        cut == CHOOSE p \in (0..n) \X (0..n) :
                  /\ p[1] + p[2] <= n
                  /\ \A k \in 1..p[1] : s[k] = " "
                  /\ \A k \in (n - p[2] + 1)..n : s[k] = " "
                  /\ p[1] + p[2] < n => s[p[1] + 1] # " " /\ s[n - p[2]] # " "
    IN  [k \in 1..(n - cut[1] - cut[2]) |-> Lower(s[cut[1] + k])]

\* The widget's first result, trimmed and lower-cased, is non-empty and equals
\* the widget's pre-filled text, trimmed and lower-cased.
SameLabel(w) ==
    /\ w.value # <<>>
    /\ Normalised(w.raw) # <<>>
    /\ Normalised(w.raw) = Normalised(w.value[1])

\* The events that say what was done with a label row.
Fixes == {"select", "remove", "ask", "none"}

\* The rows of the fieldset the loop has dealt with so far.
HandledRows ==
    { i \in 0..(Len(label_widgets) - 1) :
         i < label_i \/ (i = label_i /\ pc = "mb_label_prompt") }

\* The log entries about row i.
FixesOf(i) == { k \in 1..Len(mb_log) : mb_log[k].ev \in Fixes /\ mb_log[k].i = i }

\* C13: in the repair of a missing-label error, every label row the loop has
\* dealt with has exactly one outcome, and a row whose first search result
\* (trimmed, lower-cased) is non-empty and equals its pre-filled text (trimmed,
\* lower-cased) has that result selected: its entry is not removed and the
\* operator is not asked about it.
C13_MatchingLabelSelected ==
    \A i \in HandledRows :
        /\ Cardinality(FixesOf(i)) = 1
        /\ SameLabel(label_widgets[i + 1]) =>
              \A k \in FixesOf(i) : mb_log[k].ev = "select" /\ mb_log[k].entry = <<>>

\* Two rows were repaired: the first did not match, the second's result
\* "RC " matched the pre-filled " rc" and was selected.
C13_Witness ==
    /\ Len(label_widgets) = 2
    /\ label_i = 2
    /\ label_widgets[2] = [raw |-> <<"R", "C", " ">>, value |-> << <<" ", "r", "c">> >>]
    /\ ~SameLabel(label_widgets[1])
    /\ Len(mb_log) >= 2
    /\ mb_log[2].ev = "select"
    /\ mb_log[2].i = 1

\* C14: in the repair of a missing-label error with manual_label_selection
\* off, every label row the loop has dealt with whose first search result does
\* not match its pre-filled text has its own entry removed; no entry is removed
\* for any other reason, and the operator is never asked about a label.
C14_MismatchRemovesOwnEntry ==
    ~config.manual_label_selection =>
        /\ \A i \in HandledRows :
              LET w == label_widgets[i + 1]
              IN  (w.value # <<>> /\ ~SameLabel(w)) =>
                      \E k \in FixesOf(i) :
                          mb_log[k].ev = "remove" /\ mb_log[k].entry = <<i>>
        /\ \A k \in 1..Len(mb_log) :
              mb_log[k].entry # <<>> =>
                  /\ mb_log[k].entry = <<mb_log[k].i>>
                  /\ mb_log[k].i \in HandledRows
                  /\ ~SameLabel(label_widgets[mb_log[k].i + 1])
        /\ pc # "mb_label_prompt"
        /\ CountOf(mb_log, {"ask"}) = 0

\* With manual_label_selection off two rows were repaired: the first matched
\* and was selected, the second ("c" found for "rc") had its entry, entry 1,
\* removed.
C14_Witness ==
    /\ ~config.manual_label_selection
    /\ Len(label_widgets) = 2
    /\ label_i = 2
    /\ SameLabel(label_widgets[1])
    /\ label_widgets[2] = [raw |-> <<"c">>, value |-> << <<"r", "c">> >>]
    /\ Len(mb_log) >= 2
    /\ mb_log[1].ev = "select"
    /\ mb_log[2].ev = "remove"
    /\ mb_log[2].entry = <<1>>

\* The scan found errors the handler does not repair: two or more error tabs,
\* or one whose page text is not the missing-label message.
Unrepairable ==
    /\ error_tabs # <<>>
    /\ \/ error_tabs[1] >= 2
       \/ error_tabs[1] = 1 /\ label_missing = <<FALSE>>

\* C15: with one error tab whose text is not the missing-label message, or
\* with two or more error tabs, no label is searched, selected or removed, the
\* operator is asked about the errors exactly once, and when the operator has
\* confirmed the handler goes on to the publish step; nothing but the wait for
\* the enter-edit button can end the submission after that.
C15_UnrepairableEscalatesOnce ==
    /\ [](Unrepairable =>
            /\ CountOf(mb_log, Fixes) = 0
            /\ label_search_list = 0
            /\ label_i = 0
            /\ CountOf(mb_log, Escalations) = 1
            /\ pc \in {"mb_multi_prompt", "mb_unknown_prompt",
                       "mb_review_prompt", "mb_enter_edit", "aborted"}
            /\ pc = "mb_multi_prompt" => error_tabs[1] >= 2 /\ mb_log = <<Did("multi_prompt")>>
            /\ pc = "mb_unknown_prompt" =>
                  error_tabs[1] = 1 /\ mb_log = <<Did("error_tab"), Did("unknown_prompt")>>
            /\ pc = "aborted" => error.fn = "process_musicbrainz_submission"
                                 /\ lastRaise.wait = "wait_find_element")
    /\ [][(~Unrepairable /\ Unrepairable') =>
            pc' = IF error_tabs'[1] >= 2 THEN "mb_multi_prompt" ELSE "mb_unknown_prompt"]_vars
    /\ [][(pc \in {"mb_multi_prompt", "mb_unknown_prompt"} /\ pc' # pc) =>
            /\ pc' = IF config.manual_review_before_publish THEN "mb_review_prompt"
                                                            ELSE "mb_enter_edit"
            /\ CountOf(mb_log', Escalations) = 1]_vars

\* One error tab with an unknown text: the operator was asked once, has
\* confirmed, and the handler waits for the enter-edit button.
C15_Witness ==
    /\ error_tabs = <<1>>
    /\ label_missing = <<FALSE>>
    /\ pc = "mb_enter_edit"
    /\ ~asking
    /\ mb_log = <<Did("error_tab"), Did("unknown_prompt"), Did("error_tab")>>

\* The places where the program is blocked in an input() outside
\* wait_find_element.
PromptPcs ==
    {"pause_prompt", "mb_login_prompt", "mb_dup_prompt", "mb_multi_prompt",
     "mb_unknown_prompt", "mb_label_prompt", "mb_review_prompt"}

\* The album in progress has so far run the clean scenario: not already linked,
\* no login page at the submission, no duplicates, no wait timed out and
\* nothing raised by a page, no error tab or one missing-label error all of
\* whose rows matched, on the production server and without manual review.
CleanSoFar ==
    /\ scenario # "other"
    /\ ~config.use_test_mb
    /\ ~config.manual_review_before_publish

\* C16: in the clean scenario the operator is never asked anything (no input()
\* prompt, no prompt of a wait), nothing is raised, and the pipeline is never
\* stuck before Done: a step that stays in the clean scenario is always
\* possible until the album has completed.
C16_CleanImportNoPrompt ==
    CleanSoFar =>
        /\ pc \notin PromptPcs
        /\ ~asking
        /\ pc # "aborted"
        /\ error = NoError
        /\ retries = 0
        /\ (album > 0 /\ ~AlbumDone) => ENABLED (Next /\ scenario' # "other")

\* An album whose one missing-label error was repaired by selecting the
\* matching result has completed in the clean scenario, its cover uploaded.
C16_Witness ==
    /\ CleanSoFar
    /\ scenario = "fixed"
    /\ AlbumDone
    /\ uploads = 1
    /\ ~config.pause_on_found_release

\* The path of a URL, said without the parser: what lies between the host and
\* the first "?" or "#", less the parameters (from the first ";" on) of its
\* last segment.
PathOf(url) ==
    LET rest == Tail(url)
        stops == {k \in 1..Len(rest) : rest[k] \in {"?", "#"}}
        upto == IF stops = {} THEN Len(rest)
                ELSE (CHOOSE k \in stops : \A j \in stops : k <= j) - 1
        whole == SubSeq(rest, 1, upto)
        cuts == {k \in 1..upto : /\ whole[k] = ";"
                                 /\ \A j \in k..upto : whole[j] # "/"}
    IN  IF cuts = {} THEN whole
        ELSE SubSeq(whole, 1, (CHOOSE k \in cuts : \A j \in cuts : k <= j) - 1)

\* The final segment of a path: its longest suffix without a "/".
FinalSegment(p) ==
    LET starts == {k \in 1..(Len(p) + 1) : \A j \in k..Len(p) : p[j] # "/"}
    IN  SubSeq(p, CHOOSE k \in starts : \A j \in starts : k <= j, Len(p))

\* A name has an extension when one of its dots has a character before it
\* that is not a dot.
HasExtension(name) ==
    \E k \in 1..Len(name) : name[k] = "." /\ \E j \in 1..(k - 1) : name[j] # "."

\* The file name the claim gives a URL.
NameFor(url) ==
    LET seg == FinalSegment(Unquote(PathOf(url)))
        name == IF seg = <<>> THEN <<"image">> ELSE seg
    IN  IF HasExtension(name) THEN name ELSE name \o <<".", "jpg">>

\* C17: the cover is saved in cover_folder under the final segment of the
\* percent-decoded path of the winning URL (query, fragment and parameters left
\* out), or under "image" when that segment is empty, with ".jpg" added exactly
\* when the name has no extension.
C17_FilenameFromUrl ==
    pc = "named" =>
        /\ Len(saved) = 1
        /\ saved[1] = cover_folder \o <<"/">> \o NameFor(src_url)

\* The shape of .../covers/cover.png?x=1 has been saved as cover.png.
C17_Witness ==
    /\ pc = "named"
    /\ src_url = <<Origin, "/", "c", "/", "c", ".", "c", "?", "c", "/", "c", ".", "c">>
    /\ saved = << cover_folder \o <<"/", "c", ".", "c">> >>

\* Where the scan of the error tabs leads for n error tabs, label saying whether
\* the page text of the one error is the missing-label message.
AfterScan(n, label) ==
    IF n >= 2 THEN "mb_multi_prompt"
    ELSE IF n = 1 THEN (IF label = <<TRUE>> THEN "mb_fieldset" ELSE "mb_unknown_prompt")
    ELSE IF config.manual_review_before_publish THEN "mb_review_prompt"
    ELSE "mb_enter_edit"

\* C18: the duplicate check runs before the scan for errors and apart from it:
\* the operator is asked about duplicates exactly when the Release duplicates
\* entry is not marked disabled; while the check and its prompt last no error
\* tab has been counted and nothing has been done about errors; the prompt
\* leads to the scan; and the scan, from either way in, counts the error tabs
\* and goes where the count and the page text say, whatever the duplicate
\* check found.
C18_DuplicatesBeforeErrorScan ==
    /\ [](pc \in {"mb_duplicates", "mb_dup_prompt", "mb_scan"} =>
            error_tabs = <<>> /\ label_missing = <<>> /\ mb_log = <<>>)
    /\ [](pc = "mb_dup_prompt" => duplicates = <<"none">>)
    /\ [](pc = "mb_scan" => duplicates \in {<<"none">>, <<"true">>})
    /\ [][(pc = "mb_duplicates" /\ pc' \notin {"mb_duplicates", "aborted"}) =>
            /\ duplicates' # <<>>
            /\ pc' = IF duplicates'[1] = "none" THEN "mb_dup_prompt" ELSE "mb_scan"]_vars
    /\ [][(pc = "mb_dup_prompt" /\ pc' # pc) =>
            pc' = "mb_scan" /\ duplicates' = duplicates]_vars
    /\ [][(error_tabs = <<>> /\ error_tabs' # <<>>) =>
            /\ pc = "mb_scan"
            /\ pc' = AfterScan(error_tabs'[1], label_missing')]_vars
    /\ [][(pc = "mb_scan" /\ pc' # pc) => error_tabs' # <<>>]_vars

\* The operator was asked about duplicates and has answered; the scan for
\* errors is about to run, no error tab counted yet.
C18_Witness ==
    /\ pc = "mb_scan"
    /\ duplicates = <<"none">>
    /\ error_tabs = <<>>

\* C19: with manual_review_before_publish the enter-edit button of an album is
\* waited for and clicked only after the operator has answered the review
\* prompt of that album, the prompt is issued once all error handling is over
\* (errors counted, every label row dealt with) and no error handling follows
\* it; without the option there is no review prompt.
C19_ReviewBeforePublish ==
    /\ [](pc = "mb_review_prompt" =>
            /\ config.manual_review_before_publish
            /\ error_tabs # <<>>
            /\ label_i = label_search_list
            /\ CountOf(mb_log, {"review"}) = 0)
    /\ [](pc = "mb_enter_edit" =>
            /\ error_tabs # <<>>
            /\ label_i = label_search_list
            /\ CountOf(mb_log, {"review"}) =
                  IF config.manual_review_before_publish THEN 1 ELSE 0
            /\ config.manual_review_before_publish => Last(mb_log) = Did("review"))
    /\ [](~config.manual_review_before_publish =>
            pc # "mb_review_prompt" /\ CountOf(mb_log, {"review"}) = 0)
    /\ [][(pc' = "mb_enter_edit" /\ pc # "mb_enter_edit") =>
            (config.manual_review_before_publish <=> pc = "mb_review_prompt")]_vars
    /\ [][(pc' = "mb_published" /\ pc # "mb_published") =>
            /\ pc = "mb_enter_edit"
            /\ config.manual_review_before_publish =>
                  mb_log # <<>> /\ Last(mb_log) = Did("review")]_vars
    /\ [][(pc = "mb_review_prompt" \/ pc = "mb_enter_edit") =>
            \/ mb_log' = mb_log
            \/ mb_log' = Append(mb_log, Did("review"))
            \/ Len(mb_log') = 0]_vars

\* Under manual review a missing-label error was repaired, the operator has
\* answered the review prompt, and the enter-edit button is waited for.
C19_Witness ==
    /\ config.manual_review_before_publish
    /\ pc = "mb_enter_edit"
    /\ ~asking
    /\ Len(mb_log) = 4
    /\ mb_log[2].ev = "select"
    /\ mb_log[4] = Did("review")

\* The places of a step that can log in where the element awaited after the
\* login ("Edit note", edit-submit) has not been found yet.
BeforePostLogin ==
    {"mb_continue", "mb_username", "mb_password", "mb_remember", "mb_login_prompt",
     "mb_edit_note", "isrc_button", "isrc_check", "isrc_body", "isrc_login",
     "isrc_allow", "isrc_submit"}

\* C20: save_profile is called only after a new login of the step in
\* progress: never when the submission page showed no login page nor when the
\* ISRC page asked for no login, never before the element awaited after the
\* login has been found, and exactly once, in the step that finds that element,
\* when there was a login.
C20_ProfileSavedOnlyAfterLogin ==
    /\ [](profile_saves \in {0, 1})
    /\ [](profile_saves = 1 => login_page)
    /\ [](pc \in BeforePostLogin => profile_saves = 0)
    /\ [](pc \in {"mb_duplicates", "isrc_success"} =>
            profile_saves = IF login_page THEN 1 ELSE 0)
    /\ [][profile_saves' > profile_saves =>
            /\ new_login
            /\ login_page
            /\ ~asking
            /\ \/ pc = "mb_edit_note" /\ pc' = "mb_duplicates"
               \/ pc = "isrc_submit" /\ pc' = "isrc_success"]_vars

\* The submission page asked for a login, "Edit note" was found after it and
\* the profile has been saved once.
C20_Witness ==
    /\ pc = "mb_duplicates"
    /\ ~asking
    /\ login_page
    /\ new_login
    /\ profile_saves = 1

\* open_in_new_tab has returned, in the words all readings of the claim share:
\* the pair returned is the handle that was active at the call and a handle
\* that is open, was not in `before`, and is the active one.
ReturnedNewActive ==
    /\ Len(returned) = 2
    /\ returned[1] = original_handle
    /\ returned[1] \in before
    /\ returned[2] \notin before
    /\ returned[2] \in handles
    /\ active = returned[2]

\* C21 as stated: open_in_new_tab returns (the handle active at the call, a
\* handle not recorded before the click), the active window on return is that
\* new handle, and it goes on only once exactly one new handle has appeared.
C21_ExactlyOneNewHandle ==
    pc = "tab_returned" =>
        ReturnedNewActive /\ Cardinality(handles \ before) = 1

\* C21 as the code has it: open_in_new_tab records the active handle and the
\* open handles at the call, leaves the active window alone until its wait has
\* ended, and returns (the handle active at the call, a handle not recorded
\* before the click) with that new handle active, once at least one new handle
\* has appeared.
C21_AtLeastOneNewHandle ==
    /\ [](pc = "tab_returned" =>
            ReturnedNewActive /\ Cardinality(handles \ before) >= 1)
    /\ [](pc \in {"tab_clickable", "tab_wait"} =>
            active = original_handle /\ returned = <<>>)
    /\ [][(pc = "tab_call" /\ pc' # pc) =>
            original_handle' = active /\ before' = handles]_vars

\* A second call, made from a window other than the first, has returned after
\* the browser opened two windows: it went on with two new handles and one of
\* them is active.
C21_Witness ==
    /\ pc = "tab_returned"
    /\ ReturnedNewActive
    /\ returned[1] # FirstHandle
    /\ Cardinality(handles \ before) = 2

\* What the claim has done with a label row under manual selection, from that
\* row alone: a match is selected, a mismatch goes to the operator, a row
\* without a pre-filled text is left alone.
ManualOutcome(w) ==
    IF w.value = <<>> THEN "none" ELSE IF SameLabel(w) THEN "select" ELSE "ask"

\* C22: under manual_label_selection the rows of a missing-label error are
\* dealt with one by one in their order and each on its own: every row dealt
\* with has exactly one outcome, which depends on that row alone (a match is
\* selected without asking, a mismatch is put to the operator exactly once),
\* no entry is ever removed, the operator is asked once per mismatched row and
\* never otherwise, and when the loop is over every row has been dealt with.
C22_RowsIndependentUnderManual ==
    config.manual_label_selection =>
        /\ \A i \in HandledRows :
              /\ Cardinality(FixesOf(i)) = 1
              /\ \A k \in FixesOf(i) :
                    /\ k = i + 1
                    /\ mb_log[k].ev = ManualOutcome(label_widgets[i + 1])
                    /\ mb_log[k].entry = <<>>
        /\ CountOf(mb_log, {"remove"}) = 0
        /\ CountOf(mb_log, {"ask"}) =
              Cardinality({ i \in HandledRows :
                               ManualOutcome(label_widgets[i + 1]) = "ask" })
        /\ CountOf(mb_log, Fixes) = Cardinality(HandledRows)
        /\ pc = "mb_label_prompt" => ManualOutcome(label_widgets[label_i + 1]) = "ask"
        /\ pc \in {"mb_review_prompt", "mb_enter_edit"} =>
              HandledRows = 0..(Len(label_widgets) - 1)

\* Under manual selection the first of two rows did not match and was put to
\* the operator, the second matched and was selected, and the loop is over.
C22_Witness ==
    /\ config.manual_label_selection
    /\ Len(label_widgets) = 2
    /\ pc = "mb_enter_edit"
    /\ label_i = 2
    /\ ~SameLabel(label_widgets[1])
    /\ SameLabel(label_widgets[2])
    /\ mb_log[1].ev = "ask"
    /\ mb_log[2].ev = "select"

\* The stage st has been entered for the album in progress.
Entered(st) == \E k \in 1..Len(stages) : stages[k] = st

\* C23: with use_test_mb an album that CheckExisting found not linked, and
\* that has met no failing page step, has gone on to Import with a processing
\* tab of its own opened, and has not been aborted, as without the mode.
C23_TestServerModeImports ==
    (config.use_test_mb /\ Entered("CheckExisting") /\ ~Linked /\ scenario # "other") =>
        /\ Entered("Import")
        /\ processing_tab >= FirstWindowOf(album)
        /\ pc # "aborted"
        /\ error = NoError

\* The batch has ended: process() has returned, or an exception has left it.
Terminated == pc \in {"finished", "aborted"}

\* C24: when every prompt is answered and no wait is retried more than
\* MaxRetry times, the batch ends: by an exception that left process(), or
\* after the loop has taken the albums one by one in input order, each album
\* leaving process_harmony in AlreadyLinked or Done, and all of them taken.
C24_BatchTerminates ==
    /\ <>Terminated
    /\ [](pc = "finished" =>
            /\ album = NumAlbums
            /\ submitted = song_urls
            /\ Last(stages) \in {"AlreadyLinked", "Done"}
            /\ error = NoError)
    /\ [](pc = "aborted" => error # NoError)
    /\ [][(pc' = "next" /\ pc # "next") =>
            Last(stages') \in {"AlreadyLinked", "Done"}]_vars
    /\ [][album' # album => (pc = "next" /\ album' = album + 1)]_vars
    /\ [][Terminated => pc' = pc]_vars

\* The batch has ended normally with its last album imported.
C24_Witness ==
    /\ pc = "finished"
    /\ album = NumAlbums
    /\ submitted = song_urls
    /\ AlbumDone

====
